---- MODULE Spec2Model ----
(***************************************************************************)
(* Session recording segmentation                                          *)
(* (posthog/session_recordings/session_recording_data.py).                 *)
(*                                                                         *)
(* A datetime is represented by its number of milliseconds since the epoch *)
(* and a timedelta by a number of milliseconds: every datetime of the      *)
(* module is built from an integer millisecond timestamp or by adding or   *)
(* subtracting timedelta(milliseconds=1), so no finer instant occurs.      *)
(* A Python dict with string keys is a set of entries [k, v] with distinct *)
(* keys; a Python value is a record [kind, val] tagged with its type.      *)
(* Window ids are 1..n in the insertion order of the input dict, which is  *)
(* the order `for ... in dict` and sorted(dict) iterate in.                *)
(***************************************************************************)
EXTENDS Integers, Sequences, FiniteSets, TLC

VARIABLES
    pc,                                 \* position of the running call
    events_summary_by_window_id,        \* argument of get_metadata_from_events_summary
    start_and_end_times_by_window_id,   \* window id -> RecordingSegment of its bounds
    all_active_segments,                \* sorted active segments of all windows
    all_segments,                       \* the playlist under construction
    current_timestamp,                  \* walk cursor of get_metadata_from_events_summary
    current_window_id,                  \* window of the last appended active segment
    index,                              \* number of active segments already walked
    last_fill,                          \* the latest generate_inactive_segments_for_range call
    result,                             \* RecordingMetadata returned, or the exception raised
    gap,                                \* frame of a direct generate_inactive_segments_for_range call
    classify,                           \* frame of a direct get_active_segments_from_event_list call
    project                             \* frame of a get_events_summary_from_snapshot_data call

vars == <<pc, events_summary_by_window_id, start_and_end_times_by_window_id,
          all_active_segments, all_segments, current_timestamp, current_window_id,
          index, last_fill, result, gap, classify, project>>

(***************************************************************************)
(* Bounds of the model and program constants                               *)
(***************************************************************************)
MaxWindows == 2
MaxEvents == 4

ACTIVITY_THRESHOLD_SECONDS == 10

IncrementalSnapshot == 3

ThresholdMs == ACTIVITY_THRESHOLD_SECONDS * 1000
DayMs == 24 * 60 * 60 * 1000

(***************************************************************************)
(* Python values and dicts                                                 *)
(***************************************************************************)
IntV(i) == [kind |-> "int", val |-> i]
StrV(s) == [kind |-> "str", val |-> s]
NoneV == [kind |-> "none", val |-> 0]

BoolV(b) == [kind |-> "bool", val |-> b]
FloatV(tenths) == [kind |-> "float", val |-> tenths]
DictV(d) == [kind |-> "dict", val |-> d]

\* bool(value)
Truthy(value) ==
    CASE value.kind = "none" -> FALSE
      [] value.kind = "int" -> value.val # 0
      [] value.kind = "float" -> value.val # 0
      [] value.kind = "str" -> value.val # ""
      [] value.kind = "bool" -> value.val
      [] value.kind = "dict" -> value.val # {}

\* type(value) in [str, int]: the exact type, so a bool is neither
IsStrOrInt(value) == value.kind \in {"str", "int"}

HasKey(d, key) == \E e \in d : e.k = key
\* d.get(key): the value, or None when the key is absent
Get(d, key) == IF HasKey(d, key) THEN (CHOOSE e \in d : e.k = key).v ELSE NoneV

Max(a, b) == IF a >= b THEN a ELSE b
Min(a, b) == IF a <= b THEN a ELSE b
SetMax(S) == CHOOSE x \in S : \A y \in S : y <= x
SetMin(S) == CHOOSE x \in S : \A y \in S : x <= y

\* sorted(seq, key=...) / list.sort(key=...): Python's sort is stable.
\* key[i] is the sort key of seq[i].
StableSort(seq, key) ==
    LET n == Len(seq)
        rank(i) == Cardinality({j \in 1..n : key[j] < key[i] \/ (key[j] = key[i] /\ j < i)}) + 1
    IN  [p \in 1..n |-> seq[CHOOSE i \in 1..n : rank(i) = p]]

\* datetime.fromtimestamp(timestamp / 1000, timezone.utc): the instant `timestamp`
\* milliseconds after the epoch, which in the representation above is that count
parse_snapshot_timestamp(timestamp) == timestamp

\* timedelta(seconds=s), and the milliseconds of timedelta(milliseconds=1)
timedelta_seconds(s) == s * 1000
timedelta_millisecond == 1

\* timedelta.seconds: the seconds field of the normalised (days, seconds,
\* microseconds) triple of a non-negative timedelta, always below one day
timedelta_dot_seconds(delta) == (delta % DayMs) \div 1000

RecordingSegment(start_time, end_time, window_id, is_active) ==
    [start_time |-> start_time, end_time |-> end_time,
     window_id |-> window_id, is_active |-> is_active]

(***************************************************************************)
(* is_active_event                                                         *)
(***************************************************************************)
active_rr_web_sources == {1, 2, 3, 4, 5, 6, 7, 12}

is_active_event(event) ==
    /\ event.type = IncrementalSnapshot
    /\ Get(event.data, "source") \in {IntV(s) : s \in active_rr_web_sources}

(***************************************************************************)
(* get_active_segments_from_event_list                                     *)
(* The loop state is [segments, current]: active_recording_segments and    *)
(* current_active_segment (<<>> for None, <<segment>> otherwise).          *)
(***************************************************************************)
ActiveLoopInit == [segments |-> <<>>, current |-> <<>>]

\* the iteration with `<` in place of `<=` in the threshold test
ActiveLoopBody_StrictThreshold(st, current_timestamp_int, window_id, activity_threshold_seconds) ==
    LET ts == parse_snapshot_timestamp(current_timestamp_int) IN
    IF st.current # <<>>
       /\ (ts - st.current[1].end_time) < timedelta_seconds(activity_threshold_seconds)
    THEN [st EXCEPT !.current = <<[st.current[1] EXCEPT !.end_time = ts]>>]
    ELSE [segments |-> IF st.current # <<>> THEN st.segments \o st.current ELSE st.segments,
          current |-> <<RecordingSegment(ts, ts, window_id, TRUE)>>]

\* one iteration of `for current_timestamp_int in active_event_timestamps`
ActiveLoopBody(st, current_timestamp_int, window_id, activity_threshold_seconds) ==
    LET ts == parse_snapshot_timestamp(current_timestamp_int) IN
    IF st.current # <<>>
       /\ (ts - st.current[1].end_time) <= timedelta_seconds(activity_threshold_seconds)
    THEN [st EXCEPT !.current = <<[st.current[1] EXCEPT !.end_time = ts]>>]
    ELSE [segments |-> IF st.current # <<>> THEN st.segments \o st.current ELSE st.segments,
          current |-> <<RecordingSegment(ts, ts, window_id, TRUE)>>]

\* "Add the active last segment if it hasn't already been added": dicts compare by value
ActiveLoopFlush(st) ==
    IF st.current # <<>>
       /\ (Len(st.segments) = 0 \/ st.segments[Len(st.segments)] # st.current[1])
    THEN st.segments \o st.current
    ELSE st.segments

RECURSIVE ActiveLoop(_, _, _, _)
ActiveLoop(st, timestamps, window_id, activity_threshold_seconds) ==
    IF timestamps = <<>> THEN st
    ELSE ActiveLoop(ActiveLoopBody(st, Head(timestamps), window_id, activity_threshold_seconds),
                    Tail(timestamps), window_id, activity_threshold_seconds)

active_event_timestamps(event_list) ==
    LET act == SelectSeq(event_list, is_active_event)
    IN  [i \in 1..Len(act) |-> act[i].timestamp]

get_active_segments_from_event_list(event_list, window_id, activity_threshold_seconds) ==
    ActiveLoopFlush(ActiveLoop(ActiveLoopInit, active_event_timestamps(event_list),
                               window_id, activity_threshold_seconds))

(***************************************************************************)
(* generate_inactive_segments_for_range                                    *)
(***************************************************************************)
WindowIds(bounds) == [w \in 1..Len(bounds) |-> w]

window_ids_by_start_time(bounds) ==
    StableSort(WindowIds(bounds), [w \in 1..Len(bounds) |-> bounds[w].start_time])

\* the priority list without the last active window put first
window_id_priority_list_ByStartTimeOnly(last_active_window_id, bounds) ==
    window_ids_by_start_time(bounds)

\* lines 219-221: the last active window first, then every window by start_time
window_id_priority_list(last_active_window_id, bounds) ==
    <<last_active_window_id>> \o window_ids_by_start_time(bounds)

\* the iteration with the cursor left where it was
GapLoopBody_CursorNotAdvanced(st, window_id, range_end_time, bounds) ==
    LET window_start_time == bounds[window_id].start_time
        window_end_time == bounds[window_id].end_time
        segment_start_time == Max(window_start_time, st.current_time)
        segment_end_time == Min(window_end_time, range_end_time)
    IN  IF window_end_time > st.current_time /\ st.current_time < range_end_time
        THEN [inactive_segments |-> Append(st.inactive_segments,
                  RecordingSegment(segment_start_time, segment_end_time, window_id, FALSE)),
              current_time |-> st.current_time]
        ELSE st

\* one iteration of `for window_id in window_id_priority_list`;
\* st is [inactive_segments, current_time]
GapLoopBody(st, window_id, range_end_time, bounds) ==
    LET window_start_time == bounds[window_id].start_time
        window_end_time == bounds[window_id].end_time
        segment_start_time == Max(window_start_time, st.current_time)
        segment_end_time == Min(window_end_time, range_end_time)
    IN  IF window_end_time > st.current_time /\ st.current_time < range_end_time
        THEN [inactive_segments |-> Append(st.inactive_segments,
                  RecordingSegment(segment_start_time, segment_end_time, window_id, FALSE)),
              current_time |-> Min(segment_end_time, window_end_time)]
        ELSE st

RECURSIVE GapLoop(_, _, _, _)
GapLoop(st, priority, range_end_time, bounds) ==
    IF priority = <<>> THEN st
    ELSE GapLoop(GapLoopBody(st, Head(priority), range_end_time, bounds),
                 Tail(priority), range_end_time, bounds)

\* the segments returned as the walk left them
RepairSegments_NoRepair(inactive_segments, range_start_time, range_end_time, is_first_segment, is_last_segment) ==
    inactive_segments

\* "Ensure segments don't exactly overlap": the loop only rewrites the start_time of
\* the segment it is at and the end_time of the last one, and reads the end_time of
\* the segment before, which is never the last: each segment is decided by the
\* list as it was before the loop.
RepairSegments(inactive_segments, range_start_time, range_end_time, is_first_segment, is_last_segment) ==
    LET n == Len(inactive_segments)
        start(i) ==
            IF \/ (i = 1 /\ inactive_segments[i].start_time = range_start_time
                         /\ ~is_first_segment)
               \/ (i > 1 /\ inactive_segments[i].start_time = inactive_segments[i - 1].end_time)
            THEN inactive_segments[i].start_time + timedelta_millisecond
            ELSE inactive_segments[i].start_time
        end(i) ==
            IF i = n /\ inactive_segments[i].end_time = range_end_time /\ ~is_last_segment
            THEN inactive_segments[i].end_time - timedelta_millisecond
            ELSE inactive_segments[i].end_time
    IN  [i \in 1..n |-> [inactive_segments[i] EXCEPT !.start_time = start(i),
                                                     !.end_time = end(i)]]

generate_inactive_segments_for_range(range_start_time, range_end_time, last_active_window_id, bounds, is_first_segment, is_last_segment) ==
    RepairSegments(
        GapLoop([inactive_segments |-> <<>>, current_time |-> range_start_time],
                window_id_priority_list(last_active_window_id, bounds),
                range_end_time, bounds).inactive_segments,
        range_start_time, range_end_time, is_first_segment, is_last_segment)

(***************************************************************************)
(* get_metadata_from_events_summary                                        *)
(***************************************************************************)
RECURSIVE Flatten(_)
Flatten(seqs) == IF seqs = <<>> THEN <<>> ELSE Head(seqs) \o Flatten(Tail(seqs))

StartTimes(segments) == [i \in 1..Len(segments) |-> segments[i].start_time]

\* all_active_segments.sort(key=lambda segment: segment["start_time"]) without sorting
sort_by_start_time_Unsorted(segments) == segments

\* all_active_segments.sort(key=lambda segment: segment["start_time"])
sort_by_start_time(segments) == StableSort(segments, StartTimes(segments))

WindowBounds(by_window) ==
    [w \in 1..Len(by_window) |->
        RecordingSegment(parse_snapshot_timestamp(by_window[w][1].timestamp),
                         parse_snapshot_timestamp(by_window[w][Len(by_window[w])].timestamp),
                         w, FALSE)]

first_start_time(bounds) == SetMin({bounds[w].start_time : w \in 1..Len(bounds)})
last_end_time(bounds) == SetMax({bounds[w].end_time : w \in 1..Len(bounds)})

NoFill == [called |-> FALSE, at_index |-> 0, range_start_time |-> 0, range_end_time |-> 0,
           last_active_window_id |-> 0, is_first_segment |-> FALSE,
           is_last_segment |-> FALSE, segments |-> <<>>]

Fill(at_index, range_start_time, range_end_time, last_active_window_id, is_first_segment, is_last_segment) ==
    [called |-> TRUE, at_index |-> at_index, range_start_time |-> range_start_time,
     range_end_time |-> range_end_time, last_active_window_id |-> last_active_window_id,
     is_first_segment |-> is_first_segment, is_last_segment |-> is_last_segment,
     segments |-> generate_inactive_segments_for_range(
                      range_start_time, range_end_time, last_active_window_id,
                      start_and_end_times_by_window_id, is_first_segment, is_last_segment)]

NoResult == [status |-> "none", segments |-> <<>>, start_time |-> 0, end_time |-> 0,
             duration |-> 0, click_count |-> 0, keypress_count |-> 0, urls |-> <<>>]

\* lines 281-311: the active segments of every window, the windows' bounds, the sort
\* and the initial cursor
CollectActiveSegments ==
    /\ pc = "collect"
    /\ LET by_window == events_summary_by_window_id
           bounds == WindowBounds(by_window)
           active == Flatten([w \in 1..Len(by_window) |->
                        get_active_segments_from_event_list(by_window[w], w,
                                                            ACTIVITY_THRESHOLD_SECONDS)])
       IN  /\ start_and_end_times_by_window_id' = bounds
           /\ all_active_segments' = sort_by_start_time(active)
           /\ current_timestamp' = first_start_time(bounds)
           /\ current_window_id' = window_ids_by_start_time(bounds)[1]
    /\ all_segments' = <<>>
    /\ index' = 0
    /\ pc' = "walk"
    /\ UNCHANGED <<events_summary_by_window_id, last_fill, result, gap, classify, project>>

\* the cursor that jumps back to the end of the segment just walked
advance_current_timestamp_ToSegmentEnd(segment, timestamp) == segment.end_time

\* line 327: current_timestamp = max(segment["end_time"], current_timestamp)
advance_current_timestamp(segment, timestamp) == Max(segment.end_time, timestamp)

\* lines 313-327: one iteration of `for index, segment in enumerate(all_active_segments)`
WalkActiveSegment ==
    /\ pc = "walk"
    /\ index < Len(all_active_segments)
    /\ LET segment == all_active_segments[index + 1]
           fill == IF segment.start_time > current_timestamp
                   THEN Fill(index, current_timestamp, segment.start_time, current_window_id,
                             index = 0, FALSE)
                   ELSE NoFill
       IN  /\ last_fill' = fill
           /\ all_segments' = Append(all_segments \o fill.segments, segment)
           /\ current_window_id' = segment.window_id
           /\ current_timestamp' = advance_current_timestamp(segment, current_timestamp)
    /\ index' = index + 1
    /\ UNCHANGED <<pc, events_summary_by_window_id, start_and_end_times_by_window_id,
                   all_active_segments, result, gap, classify, project>>

\* lines 329-340: the gap between the last active segment and the end of the recording
FillTrailingGap ==
    /\ pc = "walk"
    /\ index = Len(all_active_segments)
    /\ LET bounds == start_and_end_times_by_window_id
           fill == IF current_timestamp < last_end_time(bounds)
                   THEN Fill(index, current_timestamp, last_end_time(bounds), current_window_id,
                             current_timestamp = first_start_time(bounds), TRUE)
                   ELSE NoFill
       IN  /\ last_fill' = fill
           /\ all_segments' = all_segments \o fill.segments
    /\ pc' = "aggregate"
    /\ UNCHANGED <<events_summary_by_window_id, start_and_end_times_by_window_id,
                   all_active_segments, current_timestamp, current_window_id, index,
                   result, gap, classify, project>>

\* x["data"]["source"] raises KeyError when the key is absent; `and` evaluates it only
\* for summaries of type 3
SourceLookupRaises(all_events_summary) ==
    \E i \in 1..Len(all_events_summary) :
        /\ all_events_summary[i].type = IncrementalSnapshot
        /\ ~HasKey(all_events_summary[i].data, "source")

CountSource(all_events_summary, source) ==
    Cardinality({i \in 1..Len(all_events_summary) :
                    /\ all_events_summary[i].type = IncrementalSnapshot
                    /\ Get(all_events_summary[i].data, "source") = IntV(source)})

HasStrHref(x) == Get(x.data, "href").kind = "str"

Urls(all_events_summary) ==
    LET with_href == SelectSeq(all_events_summary, HasStrHref)
    IN  [i \in 1..Len(with_href) |-> Get(with_href[i].data, "href").val]

Duration(bounds) == timedelta_dot_seconds(last_end_time(bounds) - first_start_time(bounds))

\* lines 342-360: the counts, the urls and the returned RecordingMetadata
Aggregate ==
    /\ pc = "aggregate"
    /\ LET all_events_summary == Flatten(events_summary_by_window_id)
           bounds == start_and_end_times_by_window_id
       IN  IF SourceLookupRaises(all_events_summary)
           THEN /\ result' = [NoResult EXCEPT !.status = "KeyError"]
                /\ pc' = "raised"
           ELSE /\ result' = [status |-> "returned",
                              segments |-> all_segments,
                              start_time |-> first_start_time(bounds),
                              end_time |-> last_end_time(bounds),
                              duration |-> Duration(bounds),
                              click_count |-> CountSource(all_events_summary, 2),
                              keypress_count |-> CountSource(all_events_summary, 5),
                              urls |-> Urls(all_events_summary)]
                /\ pc' = "returned"
    /\ UNCHANGED <<events_summary_by_window_id, start_and_end_times_by_window_id,
                   all_active_segments, all_segments, current_timestamp, current_window_id,
                   index, last_fill, gap, classify, project>>

(***************************************************************************)
(* Inputs of get_metadata_from_events_summary: one non-empty list of        *)
(* summaries per window, each sorted by timestamp as                       *)
(* get_events_summary_from_snapshot_data returns it.                       *)
(***************************************************************************)
Entry(key, value) == [k |-> key, v |-> value]
Summary(timestamp, type, data) == [timestamp |-> timestamp, type |-> type, data |-> data]

\* timestamps one millisecond apart, exactly the activity threshold apart, and further
Times == {0, 1, ThresholdMs + 1, ThresholdMs + 2}

\* a mouse move (active) and a full snapshot (not active)
EventKinds == {[type |-> IncrementalSnapshot, data |-> {Entry("source", IntV(1))}],
               [type |-> 2, data |-> {}]}

SortedLists(summaries, n) ==
    {l \in [1..n -> summaries] : \A i \in 1..(n - 1) : l[i].timestamp <= l[i + 1].timestamp}

RECURSIVE Sum(_)
Sum(s) == IF s = <<>> THEN 0 ELSE Head(s) + Sum(Tail(s))

\* the numbers of summaries of the windows of a recording
WindowLengths ==
    UNION {{lens \in [1..w -> 1..MaxEvents] : Sum(lens) <= MaxEvents} : w \in 1..MaxWindows}

\* the recording whose windows hold, in turn, lens[1], lens[2], ... summaries of `flat`
Recording(flat, lens) ==
    [w \in 1..Len(lens) |->
        SubSeq(flat, Sum(SubSeq(lens, 1, w - 1)) + 1, Sum(SubSeq(lens, 1, w)))]

IsRecording(by_window) ==
    \A w \in 1..Len(by_window) :
        \A i \in 1..(Len(by_window[w]) - 1) :
            by_window[w][i].timestamp <= by_window[w][i + 1].timestamp

Summaries == {Summary(t, kind.type, kind.data) : t \in Times, kind \in EventKinds}

IdleGap == [pc |-> "idle"]
IdleClassify == [pc |-> "idle"]
IdleProject == [pc |-> "idle"]

InitMetadata(summaries) ==
    /\ pc = "collect"
    /\ \E lens \in WindowLengths :
          \E flat \in [1..Sum(lens) -> summaries] :
              /\ IsRecording(Recording(flat, lens))
              /\ events_summary_by_window_id = Recording(flat, lens)
    /\ start_and_end_times_by_window_id = <<>>
    /\ all_active_segments = <<>>
    /\ all_segments = <<>>
    /\ current_timestamp = 0
    /\ current_window_id = 0
    /\ index = 0
    /\ last_fill = NoFill
    /\ result = NoResult
    /\ gap = IdleGap
    /\ classify = IdleClassify
    /\ project = IdleProject

Init == InitMetadata(Summaries)

Next ==
    \/ CollectActiveSegments
    \/ WalkActiveSegment
    \/ FillTrailingGap
    \/ Aggregate

Spec == Init /\ [][Next]_vars

(***************************************************************************)
(* Recordings for the counts and the duration: clicks, key presses, an      *)
(* incremental snapshot without a source, a meta event with a href;        *)
(* spans below a second, above a second and above a day.                   *)
(***************************************************************************)
CountTimes == {0, 1999, DayMs + 2500}

CountKinds == {[type |-> IncrementalSnapshot, data |-> {Entry("source", IntV(2))}],
               [type |-> IncrementalSnapshot, data |-> {Entry("source", IntV(5))}],
               [type |-> IncrementalSnapshot, data |-> {}],
               [type |-> 4, data |-> {Entry("href", StrV("http://a"))}]}

CountSummaries == {Summary(t, kind.type, kind.data) : t \in CountTimes, kind \in CountKinds}

InitCount == InitMetadata(CountSummaries)

SpecCount == InitCount /\ [][Next]_vars

(***************************************************************************)
(* A call of generate_inactive_segments_for_range on its own, one loop      *)
(* iteration at a time: any range, any window bounds with                  *)
(* start_time <= end_time, any preferred window of the map.                *)
(***************************************************************************)
GapTimes == {0, 1, 2, 3}

WindowBoundsOver(times) ==
    LET spans == {<<a, b>> \in times \X times : a <= b}
    IN  UNION {{[w \in 1..n |-> RecordingSegment(f[w][1], f[w][2], w, FALSE)] :
                   f \in [1..n -> spans]} : n \in 1..MaxWindows}

GapCalls ==
    {[range_start_time |-> rs, range_end_time |-> re, last_active_window_id |-> p,
      bounds |-> b, is_first_segment |-> fs, is_last_segment |-> ls,
      position |-> 0, inactive_segments |-> <<>>, current_time |-> rs] :
        rs \in GapTimes, re \in GapTimes, fs \in BOOLEAN, ls \in BOOLEAN,
        b \in WindowBoundsOver(GapTimes), p \in 1..MaxWindows}

GapPriority == window_id_priority_list(gap.last_active_window_id, gap.bounds)

\* lines 226-238: one iteration of the priority walk
GapWalkWindow ==
    /\ pc = "gap_walk"
    /\ gap.position < Len(GapPriority)
    /\ LET st == GapLoopBody([inactive_segments |-> gap.inactive_segments,
                              current_time |-> gap.current_time],
                             GapPriority[gap.position + 1], gap.range_end_time, gap.bounds)
       IN  gap' = [gap EXCEPT !.position = @ + 1,
                              !.inactive_segments = st.inactive_segments,
                              !.current_time = st.current_time]
    /\ UNCHANGED <<pc, events_summary_by_window_id, start_and_end_times_by_window_id,
                   all_active_segments, all_segments, current_timestamp, current_window_id,
                   index, last_fill, result, classify, project>>

\* lines 240-250: the boundary repair and the return
GapRepairAndReturn ==
    /\ pc = "gap_walk"
    /\ gap.position = Len(GapPriority)
    /\ gap' = [gap EXCEPT !.inactive_segments =
                   RepairSegments(gap.inactive_segments, gap.range_start_time,
                                  gap.range_end_time, gap.is_first_segment,
                                  gap.is_last_segment)]
    /\ pc' = "gap_done"
    /\ UNCHANGED <<events_summary_by_window_id, start_and_end_times_by_window_id,
                   all_active_segments, all_segments, current_timestamp, current_window_id,
                   index, last_fill, result, classify, project>>

InitGap ==
    /\ pc = "gap_walk"
    /\ gap \in {g \in GapCalls : g.last_active_window_id <= Len(g.bounds)}
    /\ events_summary_by_window_id = <<>>
    /\ start_and_end_times_by_window_id = <<>>
    /\ all_active_segments = <<>>
    /\ all_segments = <<>>
    /\ current_timestamp = 0
    /\ current_window_id = 0
    /\ index = 0
    /\ last_fill = NoFill
    /\ result = NoResult
    /\ classify = IdleClassify
    /\ project = IdleProject

NextGap == GapWalkWindow \/ GapRepairAndReturn

SpecGap == InitGap /\ [][NextGap]_vars

(***************************************************************************)
(* A call of get_active_segments_from_event_list on its own, one loop       *)
(* iteration at a time: any timestamp-sorted list, the default threshold   *)
(* or a threshold of zero.                                                 *)
(***************************************************************************)
\* a mouse move, an incremental snapshot without a source, a full snapshot with one
ClassifyKinds == {[type |-> IncrementalSnapshot, data |-> {Entry("source", IntV(1))}],
                  [type |-> IncrementalSnapshot, data |-> {}],
                  [type |-> 2, data |-> {Entry("source", IntV(1))}]}

\* the timestamps of the recordings, and one more than the threshold after them
ClassifyTimes == Times \cup {2 * ThresholdMs + 3}

ClassifySummaries ==
    {Summary(t, kind.type, kind.data) : t \in ClassifyTimes, kind \in ClassifyKinds}

ClassifyCalls ==
    {[event_list |-> l, window_id |-> w, activity_threshold_seconds |-> th,
      position |-> 0, active_recording_segments |-> <<>>, current_active_segment |-> <<>>] :
        l \in UNION {SortedLists(ClassifySummaries, n) : n \in 0..MaxEvents},
        w \in {1, 2}, th \in {0, ACTIVITY_THRESHOLD_SECONDS}}

\* lines 134-148: one iteration over active_event_timestamps
ClassifyTimestamp ==
    /\ pc = "classify_loop"
    /\ classify.position < Len(active_event_timestamps(classify.event_list))
    /\ LET st == ActiveLoopBody([segments |-> classify.active_recording_segments,
                                 current |-> classify.current_active_segment],
                                active_event_timestamps(classify.event_list)[classify.position + 1],
                                classify.window_id, classify.activity_threshold_seconds)
       IN  classify' = [classify EXCEPT !.position = @ + 1,
                                        !.active_recording_segments = st.segments,
                                        !.current_active_segment = st.current]
    /\ UNCHANGED <<pc, events_summary_by_window_id, start_and_end_times_by_window_id,
                   all_active_segments, all_segments, current_timestamp, current_window_id,
                   index, last_fill, result, gap, project>>

\* lines 150-156: the last segment and the return
ClassifyFlushAndReturn ==
    /\ pc = "classify_loop"
    /\ classify.position = Len(active_event_timestamps(classify.event_list))
    /\ classify' = [classify EXCEPT !.active_recording_segments =
                       ActiveLoopFlush([segments |-> classify.active_recording_segments,
                                        current |-> classify.current_active_segment])]
    /\ pc' = "classify_done"
    /\ UNCHANGED <<events_summary_by_window_id, start_and_end_times_by_window_id,
                   all_active_segments, all_segments, current_timestamp, current_window_id,
                   index, last_fill, result, gap, project>>

InitClassify ==
    /\ pc = "classify_loop"
    /\ classify \in ClassifyCalls
    /\ events_summary_by_window_id = <<>>
    /\ start_and_end_times_by_window_id = <<>>
    /\ all_active_segments = <<>>
    /\ all_segments = <<>>
    /\ current_timestamp = 0
    /\ current_window_id = 0
    /\ index = 0
    /\ last_fill = NoFill
    /\ result = NoResult
    /\ gap = IdleGap
    /\ project = IdleProject

NextClassify == ClassifyTimestamp \/ ClassifyFlushAndReturn

SpecClassify == InitClassify /\ [][NextClassify]_vars

(***************************************************************************)
(* get_events_summary_from_snapshot_data, one loop iteration at a time.    *)
(* A snapshot event is a dict; its "data", when present, is a dict.        *)
(***************************************************************************)
MaxSnapshots == 3

EVENT_SUMMARY_DATA_INCLUSIONS ==
    {"type", "source", "tag", "plugin", "href", "width", "height",
     "payload.href", "payload.level"}

\* event.get("data", {})
EventData(event) == IF HasKey(event, "data") THEN Get(event, "data").val ELSE {}

\* the summary's data with every string or integer entry kept, whatever its key
SummaryData_AnyKey(event) ==
    LET data == {e \in EventData(event) : IsStrOrInt(e.v)}
        payload == Get(EventData(event), "payload")
    IN  IF Truthy(payload) /\ payload.kind = "dict"
        THEN {e \in data : e.k # "payload"} \cup
             {Entry("payload", DictV({e \in payload.val : IsStrOrInt(e.v)}))}
        ELSE data

\* lines 171-185: the summary's data
SummaryData(event) ==
    LET data == {e \in EventData(event) :
                    IsStrOrInt(e.v) /\ e.k \in EVENT_SUMMARY_DATA_INCLUSIONS}
        payload == Get(EventData(event), "payload")
    IN  IF Truthy(payload) /\ payload.kind = "dict"
        THEN {e \in data : e.k # "payload"} \cup
             {Entry("payload",
                    DictV({e \in payload.val :
                              IsStrOrInt(e.v)
                              /\ ("payload." \o e.k) \in EVENT_SUMMARY_DATA_INCLUSIONS}))}
        ELSE data

\* lines 167-193: one iteration of `for event in snapshot_data`
ProjectEvent ==
    /\ pc = "project_loop"
    /\ project.position < Len(project.snapshot_data)
    /\ LET event == project.snapshot_data[project.position + 1]
       IN  project' =
             [project EXCEPT
                !.position = @ + 1,
                !.events_summary =
                    IF ~HasKey(event, "timestamp") \/ ~HasKey(event, "type")
                    THEN @
                    ELSE Append(@, Summary(Get(event, "timestamp").val,
                                           Get(event, "type").val, SummaryData(event)))]
    /\ UNCHANGED <<pc, events_summary_by_window_id, start_and_end_times_by_window_id,
                   all_active_segments, all_segments, current_timestamp, current_window_id,
                   index, last_fill, result, gap, classify>>

Timestamps(summaries) == [i \in 1..Len(summaries) |-> summaries[i].timestamp]

\* lines 195-198: the sort and the return
ProjectSortAndReturn ==
    /\ pc = "project_loop"
    /\ project.position = Len(project.snapshot_data)
    /\ project' = [project EXCEPT !.events_summary = StableSort(@, Timestamps(@))]
    /\ pc' = "project_done"
    /\ UNCHANGED <<events_summary_by_window_id, start_and_end_times_by_window_id,
                   all_active_segments, all_segments, current_timestamp, current_window_id,
                   index, last_fill, result, gap, classify>>

\* the data dicts of the snapshot events: kept and dropped keys, values that are
\* neither strings nor integers, a dotted top-level key, and payloads that are a
\* dict, an empty dict or a string
SnapshotDataDicts ==
    {{},
     {Entry("source", IntV(1)), Entry("secret", StrV("x")),
      Entry("payload", DictV({Entry("href", StrV("http://a")), Entry("other", IntV(1))}))},
     {Entry("href", StrV("http://a")), Entry("width", BoolV(TRUE)), Entry("height", FloatV(15))},
     {Entry("payload.href", StrV("http://b"))},
     {Entry("source", IntV(2)), Entry("payload", DictV({}))},
     {Entry("tag", StrV("div")), Entry("payload", StrV("x"))},
     {Entry("payload", DictV({Entry("level", StrV("warn")), Entry("href", BoolV(TRUE))}))}}

SnapshotEvents ==
    {{Entry("timestamp", IntV(t)), Entry("type", IntV(IncrementalSnapshot))} \cup d :
        t \in {1, 2}, d \in {{}} \cup {{Entry("data", DictV(x))} : x \in SnapshotDataDicts}}
    \cup {{},
          {Entry("timestamp", IntV(1)), Entry("data", DictV({Entry("source", IntV(1))}))},
          {Entry("type", IntV(IncrementalSnapshot)), Entry("data", DictV({Entry("source", IntV(1))}))}}

InitProject ==
    /\ pc = "project_loop"
    /\ project \in {[snapshot_data |-> l, position |-> 0, events_summary |-> <<>>] :
                        l \in UNION {[1..n -> SnapshotEvents] : n \in 0..MaxSnapshots}}
    /\ events_summary_by_window_id = <<>>
    /\ start_and_end_times_by_window_id = <<>>
    /\ all_active_segments = <<>>
    /\ all_segments = <<>>
    /\ current_timestamp = 0
    /\ current_window_id = 0
    /\ index = 0
    /\ last_fill = NoFill
    /\ result = NoResult
    /\ gap = IdleGap
    /\ classify = IdleClassify

NextProject == ProjectEvent \/ ProjectSortAndReturn

SpecProject == InitProject /\ [][NextProject]_vars

(***************************************************************************)
(* Properties of the returned segment list                                 *)
(***************************************************************************)
Returned == pc = "returned"
Segments == result.segments
AllSummaries == Flatten(events_summary_by_window_id)
GlobalStart == SetMin({events_summary_by_window_id[w][1].timestamp :
                          w \in 1..Len(events_summary_by_window_id)})
GlobalEnd == SetMax({events_summary_by_window_id[w][Len(events_summary_by_window_id[w])].timestamp :
                        w \in 1..Len(events_summary_by_window_id)})

InSegment(t, segment) == segment.start_time <= t /\ t <= segment.end_time
InSomeSegment(t) == \E i \in 1..Len(Segments) : InSegment(t, Segments[i])
InSomeWindow(t) ==
    \E w \in 1..Len(events_summary_by_window_id) :
        InSegment(t, start_and_end_times_by_window_id[w])

\* Every millisecond of [GlobalStart, GlobalEnd] lies in a segment. The first
\* millisecond outside every segment, if any, is GlobalStart or follows a segment's end.
NoGaps ==
    \A t \in {GlobalStart} \cup {Segments[i].end_time + 1 : i \in 1..Len(Segments)} :
        (GlobalStart <= t /\ t <= GlobalEnd) => InSomeSegment(t)

WithinRecording ==
    \A i \in 1..Len(Segments) :
        /\ GlobalStart <= Segments[i].start_time
        /\ Segments[i].end_time <= GlobalEnd

\* C1: the returned segments cover every instant of [global_start, global_end] and
\* nothing outside it, also when the windows' own timelines are disjoint.
C1_Coverage == Returned => (NoGaps /\ WithinRecording)

Collides(i) ==
    /\ Segments[i].end_time = Segments[i + 1].start_time
    /\ Segments[i].end_time \notin {GlobalStart, GlobalEnd}

\* C2 as stated: no two adjacent segments, of any active/inactive combination, share
\* a boundary instant other than global_start or global_end.
C2_NonCollision == Returned => \A i \in 1..(Len(Segments) - 1) : ~Collides(i)

\* C2 as amended: an inactive segment never shares a boundary instant with the segment
\* next to it in the list, unless that instant is global_start or global_end.
C2_NonCollisionInactive ==
    Returned =>
        \A i \in 1..(Len(Segments) - 1) :
            (~Segments[i].is_active \/ ~Segments[i + 1].is_active) => ~Collides(i)

\* an inactive segment moved one millisecond off the active segment before it and
\* one off the active segment after it
C2_Witness ==
    /\ Returned
    /\ \E i \in 2..(Len(Segments) - 1) :
           /\ ~Segments[i].is_active
           /\ Segments[i - 1].is_active /\ Segments[i + 1].is_active
           /\ Segments[i].start_time = Segments[i - 1].end_time + 1
           /\ Segments[i].end_time = Segments[i + 1].start_time - 1
           /\ Segments[i].start_time < Segments[i].end_time

\* C3: every returned segment has start_time <= end_time.
C3_StartBeforeEnd ==
    Returned => \A i \in 1..Len(Segments) : Segments[i].start_time <= Segments[i].end_time

\* C4: the returned list is sorted by start_time, non-decreasing.
C4_SortedByStartTime ==
    Returned =>
        \A i \in 1..(Len(Segments) - 1) : Segments[i].start_time <= Segments[i + 1].start_time

\* active segments of two windows overlap and an inactive segment lies between
\* two active ones
C4_Witness ==
    /\ Returned
    /\ \E i, j \in 1..Len(Segments) :
           /\ i < j
           /\ Segments[i].is_active /\ Segments[j].is_active
           /\ Segments[i].window_id # Segments[j].window_id
           /\ Segments[j].start_time < Segments[i].end_time
    /\ \E i \in 2..(Len(Segments) - 1) :
           ~Segments[i].is_active /\ Segments[i - 1].is_active /\ Segments[i + 1].is_active

(***************************************************************************)
(* Properties of the gap fills of get_metadata_from_events_summary         *)
(***************************************************************************)
FillBounds == start_and_end_times_by_window_id
FillPreferred == last_fill.last_active_window_id
FillFirst == last_fill.segments[1]
CoversFillStart(w) == FillBounds[w].end_time > last_fill.range_start_time

\* the preferred window is that of the active segment appended last, or before any
\* active segment a window that starts first
PreferredIsLastActive ==
    IF last_fill.at_index = 0
    THEN \A w \in 1..Len(FillBounds) :
            FillBounds[FillPreferred].start_time <= FillBounds[w].start_time
    ELSE FillPreferred = all_active_segments[last_fill.at_index].window_id

\* C6: the first inactive segment of a gap goes to the window of the last appended
\* active segment when that window ends after range_start, and otherwise to a
\* window that starts first among those that end after range_start.
C6_GapAttribution ==
    last_fill.called =>
        /\ PreferredIsLastActive
        /\ Len(last_fill.segments) >= 1
        /\ CoversFillStart(FillPreferred) => FillFirst.window_id = FillPreferred
        /\ ~CoversFillStart(FillPreferred) =>
              /\ FillFirst.window_id # FillPreferred
              /\ CoversFillStart(FillFirst.window_id)
              /\ \A w \in 1..Len(FillBounds) :
                    CoversFillStart(w) =>
                        FillBounds[FillFirst.window_id].start_time <= FillBounds[w].start_time

\* a gap after an active segment whose window still covers it, while another window
\* that starts earlier covers it too
C6_Witness ==
    /\ last_fill.called
    /\ last_fill.at_index > 0
    /\ CoversFillStart(FillPreferred)
    /\ FillFirst.window_id = FillPreferred
    /\ \E w \in 1..Len(FillBounds) :
           /\ w # FillPreferred
           /\ CoversFillStart(w)
           /\ FillBounds[w].start_time < FillBounds[FillPreferred].start_time

(***************************************************************************)
(* Properties of the aggregated numbers (under SpecCount)                  *)
(***************************************************************************)
\* C7: duration is the whole number of seconds between global_start and global_end.
C7_DurationWholeSeconds ==
    Returned => result.duration = (GlobalEnd - GlobalStart) \div 1000

NumberWithSource(source) ==
    Cardinality({i \in 1..Len(AllSummaries) :
                    /\ AllSummaries[i].type = 3
                    /\ Entry("source", IntV(source)) \in AllSummaries[i].data})

\* C8: a result is returned for every recording, with click_count the number of
\* type 3 summaries of source 2 and keypress_count the number of source 5.
C8_Counts ==
    pc \in {"returned", "raised"} =>
        /\ pc = "returned"
        /\ result.click_count = NumberWithSource(2)
        /\ result.keypress_count = NumberWithSource(5)

(***************************************************************************)
(* Properties of one generate_inactive_segments_for_range call (SpecGap)   *)
(***************************************************************************)
OneSegmentPerWindow ==
    \A i, j \in 1..Len(gap.inactive_segments) :
        i # j => gap.inactive_segments[i].window_id # gap.inactive_segments[j].window_id

\* C10: within one call no window yields two inactive segments, the preferred window
\* included, and the cursor current_time never decreases.
C10_NoWindowTwice ==
    /\ []OneSegmentPerWindow
    /\ [][gap'.current_time >= gap.current_time]_vars

\* the preferred window yielded the first segment, another window a second one, and
\* the walk has passed the preferred window's second place in the priority list
C10_Witness ==
    /\ pc = "gap_done"
    /\ Len(gap.inactive_segments) >= 2
    /\ gap.inactive_segments[1].window_id = gap.last_active_window_id
    /\ gap.current_time > gap.range_start_time

(***************************************************************************)
(* Properties of one get_active_segments_from_event_list call              *)
(* (SpecClassify)                                                          *)
(***************************************************************************)
\* the timestamps of the active events of the list, in list order
ActiveTimes ==
    LET l == classify.event_list
        at == {i \in 1..Len(l) :
                 /\ l[i].type = 3
                 /\ \E s \in {1, 2, 3, 4, 5, 6, 7, 12} : Entry("source", IntV(s)) \in l[i].data}
        nth(k) == CHOOSE i \in at : Cardinality({j \in at : j < i}) = k - 1
    IN  [k \in 1..Cardinality(at) |-> l[nth(k)].timestamp]

\* the places where a run starts: the first active timestamp, and every one more
\* than the threshold after the one before it
RunStarts ==
    {k \in 1..Len(ActiveTimes) :
        k = 1 \/ ActiveTimes[k] - ActiveTimes[k - 1] > classify.activity_threshold_seconds * 1000}

RunStart(n) == CHOOSE k \in RunStarts : Cardinality({j \in RunStarts : j < k}) = n - 1
RunEnd(n) ==
    IF n = Cardinality(RunStarts) THEN Len(ActiveTimes) ELSE RunStart(n + 1) - 1

ValidSnapshots ==
    {i \in 1..Len(project.snapshot_data) :
        /\ \E e \in project.snapshot_data[i] : e.k = "timestamp"
        /\ \E e \in project.snapshot_data[i] : e.k = "type"}

DataOfSnapshot(i) ==
    IF \E e \in project.snapshot_data[i] : e.k = "data"
    THEN (CHOOSE e \in project.snapshot_data[i] : e.k = "data").v.val
    ELSE {}

KeptEntries(d, keys) == {e \in d : e.v.kind \in {"str", "int"} /\ e.k \in keys}

\* the data the summary of snapshot i is to hold: the kept top-level entries, and a
\* nested payload when the snapshot's payload is a mapping (a non-empty one, unless
\* `nest_empty`)
ExpectedData(i, top_keys, nest_empty) ==
    KeptEntries(DataOfSnapshot(i), top_keys) \cup
    {[k |-> "payload", v |-> [kind |-> "dict", val |-> KeptEntries(e.v.val, {"href", "level"})]] :
        e \in {x \in DataOfSnapshot(i) :
                  x.k = "payload" /\ x.v.kind = "dict" /\ (nest_empty \/ x.v.val # {})}}

\* the returned list is sorted by timestamp and holds one summary per snapshot that
\* has a timestamp and a type, with that snapshot's timestamp, type and expected data
ProjectsAs(top_keys, nest_empty) ==
    pc = "project_done" =>
        LET out == project.events_summary IN
        /\ \A i \in 1..(Len(out) - 1) : out[i].timestamp <= out[i + 1].timestamp
        /\ Len(out) = Cardinality(ValidSnapshots)
        /\ \E f \in [1..Len(out) -> ValidSnapshots] :
              /\ \A i, j \in 1..Len(out) : i # j => f[i] # f[j]
              /\ \A i \in 1..Len(out) :
                    /\ [k |-> "timestamp", v |-> [kind |-> "int", val |-> out[i].timestamp]]
                         \in project.snapshot_data[f[i]]
                    /\ [k |-> "type", v |-> [kind |-> "int", val |-> out[i].type]]
                         \in project.snapshot_data[f[i]]
                    /\ out[i].data = ExpectedData(f[i], top_keys, nest_empty)

WalkedActiveEnds == {all_segments[i].end_time : i \in {j \in 1..Len(all_segments) : all_segments[j].is_active}}

\* while the walk runs, the cursor is the largest end_time among the active segments
\* walked so far, and the start of the recording before any was walked
CursorIsMaxEndSeen ==
    pc = "walk" =>
        current_timestamp = SetMax(WalkedActiveEnds \cup {first_start_time(start_and_end_times_by_window_id)})

ActiveBeforeInactive(a, i) == Segments[a].end_time < Segments[i].start_time \/ Segments[i].start_time = GlobalStart
InactiveBeforeActive(i, a) == Segments[i].end_time < Segments[a].start_time

\* C11: in the returned list, every active segment listed before an inactive segment
\* ends before the inactive segment starts, unless the inactive segment starts at
\* global_start, and every active segment listed after an inactive segment starts
\* after the inactive segment ends; the walk's cursor is always the maximum end_time
\* of the active segments seen so far, so overlapping active segments of different
\* windows never make a gap be filled over time already covered.
C11_InactiveNeverOverlapsActive ==
    /\ CursorIsMaxEndSeen
    /\ Returned =>
           \A a, i \in 1..Len(Segments) :
               (Segments[a].is_active /\ ~Segments[i].is_active) =>
                   /\ a < i => ActiveBeforeInactive(a, i)
                   /\ i < a => InactiveBeforeActive(i, a)

\* two active segments of different windows overlap, the later one in the list ends
\* before the earlier one does, and an inactive segment generated after both starts
\* after the longer one has ended
C11_Witness ==
    /\ Returned
    /\ \E a, b, i \in 1..Len(Segments) :
           /\ a < b /\ b < i
           /\ Segments[a].is_active /\ Segments[b].is_active /\ ~Segments[i].is_active
           /\ Segments[a].window_id # Segments[b].window_id
           /\ Segments[b].start_time <= Segments[a].end_time
           /\ Segments[b].end_time < Segments[a].end_time
           /\ Segments[i].start_time > Segments[a].end_time
           /\ Segments[i].start_time < Segments[i].end_time

====
